---- MODULE Spec2Model ----
(***************************************************************************)
(* GroupMeNavigator: the synchronization bridge.                           *)
(*                                                                         *)
(*   - the client Connection Session  (client/src/hooks/use-websocket.ts)  *)
(*   - the client message cache       (client/src/components/ChatArea.tsx) *)
(*   - the server relay               (server/routes.ts)                   *)
(*                                                                         *)
(* The three parts share one set of variables and one initial state.       *)
(* SpecSession, SpecCache and SpecRelay run one part each against an       *)
(* environment that may deliver any frame / any request at any time.       *)
(***************************************************************************)
EXTENDS Integers, Sequences, FiniteSets, TLC

\* ------------------------------------------------------------------ bounds
MaxChanges == 2     \* how often the viewport selects another conversation
MaxConns == 2       \* server-side sockets alive at the same time
MaxSnapshot == 2    \* longest poll snapshot
MaxBackoff == 1     \* end to end: the network fails a transport while retryCount < MaxBackoff

\* ------------------------------------------------------- program constants
MAX_RETRIES == 5
INITIAL_RETRY_DELAY == 1000

\* ------------------------------------------------------------- value sets
Groups == {"g1", "g2"}
NoGroup == "none"                      \* groupId === undefined
Transports == 1..(MaxChanges + 2)      \* WebSocket objects the hook holds
Handles == 1..(MaxChanges + 1)         \* setTimeout handles
Times == {1, 2}
\* GroupMeMessage: the messages the upstream holds for each conversation
\* (id, created_at; the same id with another created_at is the same message
\* with different content)
MsgsOf(g) ==
    IF g = "g1" THEN [id : {"m1", "m2", "m3"}, created_at : Times]
    ELSE [id : {"n1"}, created_at : {1}]
NoMsg == [id |-> "none", created_at |-> 0]         \* message === undefined
NoFrame == [type |-> "null", groupId |-> NoGroup, message |-> NoMsg]
Garbage == [type |-> "#unparseable", groupId |-> NoGroup, message |-> NoMsg]
\* what JSON.parse can return for a frame the server may send
Frames ==
    UNION {[type : {"new_message"}, groupId : {g}, message : MsgsOf(g) \cup {NoMsg}] : g \in Groups}
    \cup [type : {"member_joined", "#other"}, groupId : Groups, message : {NoMsg}]
\* what the hook sends: JSON.stringify({ type: 'join_group', groupId })
JoinFrame(g) == [type |-> "join_group", groupId |-> g]
NoSend == [type |-> "none", groupId |-> NoGroup]     \* nothing sent and in flight
\* what the upstream can answer to a poll: its message ids are unique
RECURSIVE SeqsUpTo(_, _)
SeqsUpTo(S, n) ==
    IF n = 0 THEN {<<>>}
    ELSE LET shorter == SeqsUpTo(S, n - 1)
         IN shorter \cup {Append(q, x) : q \in shorter, x \in S}
DistinctIds(q) == \A i, j \in 1..Len(q) : q[i].id = q[j].id => i = j
SnapshotsByGroup ==
    [g \in Groups |-> {q \in SeqsUpTo(MsgsOf(g), MaxSnapshot) : DistinctIds(q)}]
Snapshots(g) == SnapshotsByGroup[g]

\* ---------------------------------------------------------------- state
VARIABLES
    \* --- useWebSocket (one viewport)
    phase,             \* "init" | "mounted" | "unmounted"
    groupId,           \* the groupId prop of the current render
    changes,           \* number of conversation selections so far
    ws,                \* ws.current: a transport, or 0 for null
    rs,                \* readyState of each WebSocket object
    tgroup,            \* groupId captured by the handlers of each object
    retryCount,        \* retryCount.current
    retryTimer,        \* retryTimer.current: a handle, or 0 for null
    intentionalClose,  \* intentionalClose.current
    isConnected,       \* the isConnected state
    timers,            \* pending setTimeout callbacks, in scheduling order
    wire,              \* per WebSocket object: the frame it sent that is in flight
    peer,              \* per WebSocket object: the server-side socket it reached, or 0
    delayLog,          \* delays scheduled since retryCount was last 0
    tornWithTimer,     \* a retry timer was pending when the viewport unmounted
    lastMessage,       \* the lastMessage state
    rx,                \* event.data of the last message event the hook handled
    effectPending,     \* lastMessage changed and the effect has not run yet
    \* --- ChatArea query cache
    cache,             \* query data per conversation ("undef" or a sequence)
    cacheOp,           \* the last cache write: who wrote and what it found
    \* --- server relay
    clients,           \* the clients Map, in insertion order
    srs,               \* readyState of each server-side socket
    sgroup,            \* (ws as any).groupId of each server-side socket
    cid,               \* clientId in the closure of each socket's handlers
    bcast              \* what the last step handled: a request and its fan-out, or a frame

sessionVars == <<phase, groupId, changes, ws, rs, tgroup, retryCount, retryTimer,
                 intentionalClose, isConnected, timers, wire, peer, delayLog, tornWithTimer>>
viewVars == <<lastMessage, rx, effectPending, cache, cacheOp>>
relayVars == <<clients, srs, sgroup, cid, bcast>>
vars == <<sessionVars, viewVars, relayVars>>

\* ======================================================================
\*  Connection Session: client/src/hooks/use-websocket.ts
\* ======================================================================

\* The refs and state of the hook as one value, so that the handlers
\* compose the way the code calls them (cleanup, then connect; retryCount++,
\* then connect).
Sess ==
    [ws |-> ws, rs |-> rs, tgroup |-> tgroup, retryCount |-> retryCount,
     retryTimer |-> retryTimer, intentionalClose |-> intentionalClose,
     isConnected |-> isConnected, timers |-> timers, wire |-> wire,
     peer |-> peer, delayLog |-> delayLog]

SetSess(s) ==
    /\ ws' = s.ws
    /\ rs' = s.rs
    /\ tgroup' = s.tgroup
    /\ retryCount' = s.retryCount
    /\ retryTimer' = s.retryTimer
    /\ intentionalClose' = s.intentionalClose
    /\ isConnected' = s.isConnected
    /\ timers' = s.timers
    /\ wire' = s.wire
    /\ peer' = s.peer
    /\ delayLog' = s.delayLog

\* Math.pow(2, retryCount.current) * INITIAL_RETRY_DELAY
RetryDelayLinear(n) == (n + 1) * INITIAL_RETRY_DELAY
RetryDelay(n) == (2 ^ n) * INITIAL_RETRY_DELAY

\* retryCount.current < MAX_RETRIES
MayRetry(n) == n < MAX_RETRIES

\* clearTimeout(h): the callback with that handle never runs
ClearTimeout(tm, h) == SelectSeq(tm, LAMBDA x : x.h # h)

FreeSlots(s) == {t \in Transports : s.rs[t] = "NONE"}
FreeHandles(s) == {h \in Handles : \A i \in 1..Len(s.timers) : s.timers[i].h # h}
Min(S) == CHOOSE x \in S : \A y \in S : x <= y

\* A WebSocket object nothing refers to and no event can come from.
Release(s, t) ==
    [s EXCEPT !.rs[t] = "NONE", !.tgroup[t] = NoGroup, !.wire[t] = NoSend, !.peer[t] = 0]

\* if (retryTimer.current) { clearTimeout(retryTimer.current); retryTimer.current = null; }
ClearRetryTimer(s) ==
    IF s.retryTimer # 0
    THEN [s EXCEPT !.timers = ClearTimeout(s.timers, s.retryTimer), !.retryTimer = 0]
    ELSE s

\* connect() of the render whose groupId is g
connectAlways(s, g) ==
    LET s1 == ClearRetryTimer(s)
        s2 == IF s1.ws # 0 /\ s1.rs[s1.ws] = "CLOSED" THEN Release(s1, s1.ws) ELSE s1
        t == Min(FreeSlots(s2))
    IN [s2 EXCEPT !.intentionalClose = FALSE,
                  !.ws = t,
                  !.rs[t] = "CONNECTING",
                  !.tgroup[t] = g]
connect(s, g) ==
    LET s1 == ClearRetryTimer(s) IN
    IF s1.ws # 0 /\ s1.rs[s1.ws] \in {"OPEN", "CONNECTING"}
    THEN s1
    ELSE LET s2 == IF s1.ws # 0 /\ s1.rs[s1.ws] = "CLOSED" THEN Release(s1, s1.ws) ELSE s1
             t == Min(FreeSlots(s2))
         IN [s2 EXCEPT !.intentionalClose = FALSE,
                       !.ws = t,
                       !.rs[t] = "CONNECTING",
                       !.tgroup[t] = g]

\* ws.current.onopen of transport t: the handlers of t see the groupId of
\* the render that created t; the join is sent with ws.current?.send
onopen(s, t) ==
    LET s1 == [s EXCEPT !.rs[t] = "OPEN",
                        !.isConnected = TRUE,
                        !.retryCount = 0,
                        !.delayLog = <<>>]
        s2 == ClearRetryTimer(s1)
    IN IF s.tgroup[t] # NoGroup /\ s2.ws # 0
       THEN [s2 EXCEPT !.wire[s2.ws] = JoinFrame(s.tgroup[t])]
       ELSE s2

\* ws.current.onclose of transport t. A timer remembers in "owner" whether
\* the transport that scheduled it had been closed by the owner's close().
onclose(s, t) ==
    LET owner == s.rs[t] = "CLOSING"
        s0 == IF s.ws = t THEN [s EXCEPT !.rs[t] = "CLOSED"] ELSE Release(s, t)
        s1 == [s0 EXCEPT !.isConnected = FALSE]
    IN IF ~s1.intentionalClose /\ MayRetry(s1.retryCount)
       THEN LET h == Min(FreeHandles(s1))
                d == RetryDelay(s1.retryCount)
            IN [s1 EXCEPT !.timers = Append(@, [h |-> h, delay |-> d,
                                                 grp |-> s.tgroup[t], owner |-> owner]),
                          !.retryTimer = h,
                          !.delayLog = Append(@, d)]
       ELSE s1

\* the cleanup function returned by the effect. A frame still in flight
\* when close() is called is taken as not delivered (the peer's view of a
\* closing transport is not followed further).
cleanupNoClose(s) ==
    LET s1 == [s EXCEPT !.intentionalClose = TRUE]
        s2 == ClearRetryTimer(s1)
    IN [s2 EXCEPT !.ws = 0, !.retryCount = 0, !.delayLog = <<>>]
cleanup(s) ==
    LET s1 == [s EXCEPT !.intentionalClose = TRUE]
        s2 == ClearRetryTimer(s1)
        s3 == IF s2.ws = 0 THEN s2
              ELSE IF s2.rs[s2.ws] \in {"CONNECTING", "OPEN"}
                   THEN [s2 EXCEPT !.rs[s2.ws] = "CLOSING", !.wire[s2.ws] = NoSend, !.ws = 0]
                   ELSE [Release(s2, s2.ws) EXCEPT !.ws = 0]
    IN [s3 EXCEPT !.retryCount = 0, !.delayLog = <<>>]

\* the setTimeout callback: retryCount.current++; connect();
retryCallback(s, i) ==
    LET tm == s.timers[i]
        s1 == [s EXCEPT !.timers = SelectSeq(@, LAMBDA x : x.h # tm.h),
                        !.retryCount = @ + 1]
    IN connect(s1, tm.grp)

\* A timer cannot run before one that was scheduled earlier for no longer.
Due(i) == \A j \in 1..(i - 1) : timers[j].delay > timers[i].delay


\* ---------------------------------------------------------------- actions

\* useEffect on mount: connect()
Mount ==
    /\ phase = "init"
    /\ phase' = "mounted"
    /\ SetSess(connect(Sess, groupId))
    /\ UNCHANGED <<groupId, changes, tornWithTimer, viewVars, relayVars>>

\* the effect's cleanup on unmount
Unmount ==
    /\ phase = "mounted"
    /\ phase' = "unmounted"
    /\ tornWithTimer' = (timers # <<>>)
    /\ SetSess(cleanup(Sess))
    /\ UNCHANGED <<groupId, changes, viewVars, relayVars>>

\* the browser reports the transport established: readyState OPEN, then onopen
TransportOpens(t) ==
    /\ rs[t] = "CONNECTING"
    /\ SetSess(onopen(Sess, t))
    /\ UNCHANGED <<phase, groupId, changes, tornWithTimer, viewVars, relayVars>>

\* the connection fails or is dropped by the peer: readyState CLOSED, then onclose
TransportFails(t) ==
    /\ rs[t] \in {"CONNECTING", "OPEN"}
    /\ SetSess(onclose(Sess, t))
    /\ UNCHANGED <<phase, groupId, changes, tornWithTimer, viewVars, relayVars>>

\* the close() the owner asked for completes: readyState CLOSED, then onclose
CloseCompletes(t) ==
    /\ rs[t] = "CLOSING"
    /\ SetSess(onclose(Sess, t))
    /\ UNCHANGED <<phase, groupId, changes, tornWithTimer, viewVars, relayVars>>

\* a retry timer elapses
TimerFires(i) ==
    /\ i \in 1..Len(timers)
    /\ Due(i)
    /\ SetSess(retryCallback(Sess, i))
    /\ UNCHANGED <<phase, groupId, changes, tornWithTimer, viewVars, relayVars>>

\* ======================================================================
\*  Message cache: client/src/components/ChatArea.tsx
\* ======================================================================

\* ws.current.onmessage: JSON.parse, then setLastMessage; a throw is caught
Parses(f) == f # Garbage
onmessageNoCatch(last, f) == f
onmessage(last, f) == IF Parses(f) THEN f ELSE last

\* the setQueryData updater of the new_message effect
applyDeltaAlways(old, m) ==
    IF ~old.has THEN [has |-> TRUE, data |-> <<m>>]
    ELSE [has |-> TRUE, data |-> Append(old.data, m)]
applyDelta(old, m) ==
    IF ~old.has THEN [has |-> TRUE, data |-> <<m>>]
    ELSE IF \E i \in 1..Len(old.data) : old.data[i].id = m.id THEN old
    ELSE [has |-> TRUE, data |-> Append(old.data, m)]

\* a fetch of the messages query resolves: its result becomes the query data
applySnapshotAppend(old, snap) == [has |-> TRUE, data |-> old.data \o snap]
applySnapshot(old, snap) == [has |-> TRUE, data |-> snap]

\* the condition of the new_message effect
DeltaAppliesAnyType(last, g) ==
    /\ last.groupId = g
    /\ last.message # NoMsg
DeltaApplies(last, g) ==
    /\ last.type = "new_message"
    /\ last.groupId = g
    /\ last.message # NoMsg

\* the new_message effect as a whole, for the render with lastMessage last
\* and group?.id g
deltaEffect(c, last, g) ==
    IF DeltaApplies(last, g)
    THEN [c EXCEPT ![g] = applyDelta(c[g], last.message)]
    ELSE c

DeltaOp(c, last, g) ==
    IF ~DeltaApplies(last, g) THEN "skip"
    ELSE IF c[g].has /\ \E i \in 1..Len(c[g].data) : c[g].data[i].id = last.message.id
         THEN "delta_dup" ELSE "delta_new"

\* new Date(created_at).getTime(): created_at is epoch seconds, a number
GetTime(m) == m.created_at

\* [...messages].sort((a, b) => getTime(a) - getTime(b)): a stable sort
RECURSIVE InsertSorted(_, _)
InsertSorted(q, m) ==
    IF q = <<>> THEN <<m>>
    ELSE IF GetTime(m) - GetTime(q[Len(q)]) < 0
         THEN Append(InsertSorted(SubSeq(q, 1, Len(q) - 1), m), q[Len(q)])
         ELSE Append(q, m)
RECURSIVE SortByTime(_)
SortByTime(q) ==
    IF q = <<>> THEN <<>>
    ELSE InsertSorted(SortByTime(SubSeq(q, 1, Len(q) - 1)), q[Len(q)])

\* data: messages = []
messagesOf(g) == IF g \in Groups /\ cache[g].has THEN cache[g].data ELSE <<>>
sortedMessagesUnsorted(g) == messagesOf(g)
sortedMessages(g) == SortByTime(messagesOf(g))

\* a conversation the viewport has had a messages query for
Queried(g) == g = groupId \/ (groupId \in Groups /\ changes >= 2)

\* a message event on an OPEN transport
MessageArrives(t, f) ==
    /\ rs[t] = "OPEN"
    /\ phase = "mounted"
    /\ lastMessage' = onmessage(lastMessage, f)
    /\ rx' = f
    /\ effectPending' = (effectPending \/ Parses(f))
    /\ UNCHANGED <<sessionVars, cache, cacheOp, relayVars>>

\* React renders with the new lastMessage and runs the new_message effect
RunEffect ==
    /\ effectPending
    /\ phase = "mounted"
    /\ effectPending' = FALSE
    /\ IF groupId \in Groups
       THEN /\ cache' = deltaEffect(cache, lastMessage, groupId)
            /\ cacheOp' = DeltaOp(cache, lastMessage, groupId)
       ELSE /\ cache' = cache
            /\ cacheOp' = "skip"
    /\ UNCHANGED <<sessionVars, lastMessage, rx, relayVars>>

\* a poll (refetchInterval) or an invalidation refetch resolves
PollSnapshot(g, snap) ==
    /\ phase = "mounted"
    /\ g \in Groups /\ Queried(g)
    /\ cache' = [cache EXCEPT ![g] = applySnapshot(cache[g], snap)]
    /\ cacheOp' = "snapshot"
    /\ UNCHANGED <<sessionVars, lastMessage, rx, effectPending, relayVars>>

\* the user selects conversation g: the hook's effect is cleaned up and run
\* again (cleanup, then connect of the new render), and the new_message
\* effect runs again because group?.id changed
SelectGroup(g) ==
    /\ phase = "mounted"
    /\ g \in Groups /\ g # groupId
    /\ changes < MaxChanges
    /\ groupId' = g
    /\ changes' = changes + 1
    /\ SetSess(connect(cleanup(Sess), g))
    /\ effectPending' = FALSE
    /\ cache' = deltaEffect(cache, lastMessage, g)
    /\ cacheOp' = DeltaOp(cache, lastMessage, g)
    /\ UNCHANGED <<phase, tornWithTimer, lastMessage, rx, relayVars>>

\* ======================================================================
\*  Relay: server/routes.ts
\* ======================================================================
Conns == 1..MaxConns          \* server-side WebSocket objects
ClientIds == {"x1", "x2"}     \* values of Math.random().toString(36).substring(7)
NoId == "none"
\* bcast: route is a route of Routes, "frame" after ws.on('message'), or "none".
\* For a request: the event kind, its conversation, the sockets it was sent
\* to, the sockets whose send threw, the HTTP status, whether the write
\* (upstream or store) succeeded and how often it was called. For a frame:
\* its type, its groupId, the socket, and the socket's subscription before
\* the frame.
NoRequest ==
    [route |-> "none", kind |-> "none", groupId |-> NoGroup,
     sent |-> {}, threw |-> {}, status |-> 0, conn |-> 0, before |-> NoGroup,
     wrote |-> FALSE, writes |-> 0]
RequestOf(route, kind, g, status, wrote, writes) ==
    [route |-> route, kind |-> kind, groupId |-> g,
     sent |-> {}, threw |-> {}, status |-> status, conn |-> 0, before |-> NoGroup,
     wrote |-> wrote, writes |-> writes]
FrameOf(c, f, before) ==
    [route |-> "frame", kind |-> f.type, groupId |-> f.groupId,
     sent |-> {}, threw |-> {}, status |-> 0, conn |-> c, before |-> before,
     wrote |-> FALSE, writes |-> 0]

\* what JSON.parse can return for a frame a client may send
ClientFrames ==
    [type : {"join_group"}, groupId : Groups \cup {NoGroup}]
    \cup {[type |-> "#other", groupId |-> NoGroup], [type |-> "#unparseable", groupId |-> NoGroup]}

\* clients.set(id, c): a Map keeps the position of a key it already holds
MapHas(m, id) == \E i \in 1..Len(m) : m[i].id = id
MapSet(m, id, c) ==
    IF MapHas(m, id)
    THEN [i \in 1..Len(m) |-> IF m[i].id = id THEN [id |-> id, conn |-> c] ELSE m[i]]
    ELSE Append(m, [id |-> id, conn |-> c])
\* clients.delete(id)
MapDeleteNothing(m, id) == m
MapDelete(m, id) == SelectSeq(m, LAMBDA e : e.id # id)
Registered(c) == \E i \in 1..Len(clients) : clients[i].conn = c

\* ws.on('message'): the subscription after a frame
onFrameFirstJoinWins(g, f) ==
    IF f.type = "join_group" /\ f.groupId # NoGroup /\ g = NoGroup THEN f.groupId ELSE g
onFrame(g, f) ==
    IF f.type = "#unparseable" THEN g
    ELSE IF f.type = "join_group" /\ f.groupId # NoGroup THEN f.groupId
    ELSE g

\* the routes that broadcast, the event each one sends, and its statuses
Routes == {"post_v1", "post_v2", "create_v2", "join_v2", "leave_v2"}
KindOf(route) ==
    CASE route = "post_v1" -> "new_message"
      [] route = "post_v2" -> "new_message"
      [] route = "create_v2" -> "group_created"
      [] route = "join_v2" -> "member_joined"
      [] route = "leave_v2" -> "member_left"
OkStatus(route) == IF route \in {"post_v2", "create_v2"} THEN 201 ELSE 200
\* the status the route's catch block answers with
ErrStatus(route) == IF route \in {"post_v1", "leave_v2"} THEN 500 ELSE 400
\* groupMeRequest / storage.*: one call per request, whether it resolves or
\* rejects
WriteCalls(ok) == 1
\* the forEach is reached only when the awaited write did not throw
BroadcastAfterAnyWrite(ok) == TRUE
BroadcastAfter(ok) == ok
\* only POST /api/groups/:groupId/messages wraps send in try/catch
Catches(route) == route = "post_v1"

\* the condition under which the forEach callback sends to socket c
SendsToAnyGroup(c, route, g) == srs[c] = "OPEN"
SendsTo(c, route, g) ==
    /\ srs[c] = "OPEN"
    /\ (route = "create_v2" \/ sgroup[c] = g)

\* clients.forEach(...) from entry i on; send throws for socket fail
RECURSIVE FanOut(_, _, _, _, _)
FanOut(i, acc, route, g, fail) ==
    IF i > Len(clients) THEN acc
    ELSE LET c == clients[i].conn IN
         IF ~SendsTo(c, route, g) THEN FanOut(i + 1, acc, route, g, fail)
         ELSE IF c # fail
              THEN FanOut(i + 1, [acc EXCEPT !.sent = @ \cup {c}], route, g, fail)
              ELSE IF Catches(route)
                   THEN FanOut(i + 1, [acc EXCEPT !.threw = @ \cup {c}], route, g, fail)
                   ELSE [acc EXCEPT !.threw = @ \cup {c}, !.status = ErrStatus(route)]

\* wss.on('connection') for socket c, whose id was drawn as id
onConnection(c, id) ==
    /\ srs[c] = "NONE"
    /\ srs' = [srs EXCEPT ![c] = "OPEN"]
    /\ cid' = [cid EXCEPT ![c] = id]
    /\ clients' = MapSet(clients, id, c)
    /\ bcast' = NoRequest
    /\ sgroup' = sgroup

\* ws.on('message') of socket c with data f
onServerMessage(c, f) ==
    /\ srs[c] = "OPEN"
    /\ sgroup' = [sgroup EXCEPT ![c] = onFrame(@, f)]
    /\ bcast' = FrameOf(c, f, sgroup[c])
    /\ UNCHANGED <<clients, srs, cid>>

\* a client outside the viewport connected
Connection(c, id) ==
    /\ onConnection(c, id)
    /\ UNCHANGED <<sessionVars, viewVars>>

\* a client outside the viewport sent f
ServerReceives(c, f) ==
    /\ onServerMessage(c, f)
    /\ UNCHANGED <<sessionVars, viewVars>>

\* the peer starts the closing handshake: readyState CLOSING
PeerCloses(c) ==
    /\ srs[c] = "OPEN"
    /\ srs' = [srs EXCEPT ![c] = "CLOSING"]
    /\ bcast' = NoRequest
    /\ UNCHANGED <<clients, sgroup, cid, sessionVars, viewVars>>

\* the socket is gone: readyState CLOSED, then ws.on('close')
SocketCloses(c) ==
    /\ srs[c] \in {"OPEN", "CLOSING"}
    /\ clients' = MapDelete(clients, cid[c])
    /\ srs' = [srs EXCEPT ![c] = "NONE"]
    /\ sgroup' = [sgroup EXCEPT ![c] = NoGroup]
    /\ cid' = [cid EXCEPT ![c] = NoId]
    /\ bcast' = NoRequest
    /\ UNCHANGED <<sessionVars, viewVars>>

\* one of the broadcasting POST routes, for conversation g, for a request
\* that passed the route's checks (the early returns). ok: the write
\* (upstream or store) resolved, otherwise it threw; fail: the socket whose
\* send throws, 0 for none.
Request(route, g, ok, fail) ==
    /\ route = "create_v2" => g = "g1"
    /\ fail # 0 => (ok /\ Registered(fail) /\ SendsTo(fail, route, g))
    /\ bcast' =
         IF ~BroadcastAfter(ok)
         THEN RequestOf(route, KindOf(route), g, ErrStatus(route), ok, WriteCalls(ok))
         ELSE FanOut(1, RequestOf(route, KindOf(route), g, OkStatus(route), ok, WriteCalls(ok)),
                     route, g, fail)
    /\ UNCHANGED <<clients, srs, sgroup, cid, sessionVars, viewVars>>

\* ----------------------------------------------------------------------
\*  The viewport's transports and the relay's sockets joined end to end
\* ----------------------------------------------------------------------

\* the server accepts the connection of transport t as socket c: 'connection'
\* is emitted before the client sees the transport established. The socket
\* is the lowest free one and the id drawn is not in the Map.
Accept(t, c, id) ==
    /\ rs[t] = "CONNECTING" /\ peer[t] = 0
    /\ \A u \in Transports : peer[u] # c
    /\ \A d \in Conns : (srs[d] = "NONE" /\ \A u \in Transports : peer[u] # d) => c <= d
    /\ ~MapHas(clients, id)
    /\ onConnection(c, id)
    /\ SetSess([Sess EXCEPT !.peer[t] = c])
    /\ UNCHANGED <<phase, groupId, changes, tornWithTimer, viewVars>>

\* the client sees the transport established, after the server accepted it
Established(t) ==
    /\ peer[t] # 0
    /\ TransportOpens(t)

\* the frame transport t sent reaches the socket at the other end
Delivered(t) ==
    /\ wire[t] # NoSend /\ peer[t] # 0
    /\ onServerMessage(peer[t], wire[t])
    /\ SetSess([Sess EXCEPT !.wire[t] = NoSend])
    /\ UNCHANGED <<phase, groupId, changes, tornWithTimer, viewVars>>

\* the network fails transport t, as long as the retry counter is low
NetworkFails(t) ==
    /\ retryCount < MaxBackoff
    /\ TransportFails(t)

\* the server sees the close of a socket whose client end is closing, closed
\* or gone
Hangup(c) ==
    /\ \A t \in Transports : peer[t] = c => rs[t] \in {"CLOSING", "CLOSED"}
    /\ SocketCloses(c)

RelayNext ==
    \/ \E c \in Conns, id \in ClientIds : Connection(c, id)
    \/ \E c \in Conns, f \in ClientFrames : ServerReceives(c, f)
    \/ \E c \in Conns : PeerCloses(c)
    \/ \E c \in Conns : SocketCloses(c)
    \/ \E route \in Routes, g \in Groups, ok \in BOOLEAN, fail \in Conns \cup {0} :
          Request(route, g, ok, fail)

\* ======================================================================
\*  Initial state and specifications
\* ======================================================================
Init ==
    /\ phase = "init"
    /\ groupId = NoGroup
    /\ changes = 0
    /\ ws = 0
    /\ rs = [t \in Transports |-> "NONE"]
    /\ tgroup = [t \in Transports |-> NoGroup]
    /\ retryCount = 0
    /\ retryTimer = 0
    /\ intentionalClose = FALSE
    /\ isConnected = FALSE
    /\ timers = <<>>
    /\ wire = [t \in Transports |-> NoSend]
    /\ peer = [t \in Transports |-> 0]
    /\ delayLog = <<>>
    /\ tornWithTimer = FALSE
    /\ lastMessage = NoFrame
    /\ rx = NoFrame
    /\ effectPending = FALSE
    /\ cache = [g \in Groups |-> [has |-> FALSE, data |-> <<>>]]
    /\ cacheOp = "none"
    /\ clients = <<>>
    /\ srs = [c \in Conns |-> "NONE"]
    /\ sgroup = [c \in Conns |-> NoGroup]
    /\ cid = [c \in Conns |-> NoId]
    /\ bcast = NoRequest

\* the session against a network that may fail at any time
SessionNext ==
    \/ Mount
    \/ Unmount
    \/ \E g \in Groups : SelectGroup(g)
    \/ \E t \in Transports : TransportOpens(t)
    \/ \E t \in Transports : TransportFails(t)
    \/ \E t \in Transports : CloseCompletes(t)
    \/ \E i \in Handles : TimerFires(i)

SpecSession == Init /\ [][SessionNext]_vars

\* the viewport on a network that does not fail: pushed frames that parse
\* (one that does not is dropped, see SpecInbound), the new_message effect
\* and the poll
CacheNext ==
    \/ Mount
    \/ \E g \in Groups : SelectGroup(g)
    \/ \E t \in Transports : TransportOpens(t)
    \/ \E t \in Transports, f \in Frames : MessageArrives(t, f)
    \/ RunEffect
    \/ \E g \in Groups : \E snap \in Snapshots(g) : PollSnapshot(g, snap)

SpecCache == Init /\ [][CacheNext]_vars

\* the relay against clients that may send any frame and close at any time
SpecRelay == Init /\ [][RelayNext]_vars

\* the viewport's session and the relay end to end, on a network that may
\* fail at any time
JoinNext ==
    \/ Mount
    \/ \E g \in Groups : SelectGroup(g)
    \/ \E t \in Transports, c \in Conns, id \in ClientIds : Accept(t, c, id)
    \/ \E t \in Transports : Established(t)
    \/ \E t \in Transports : Delivered(t)
    \/ \E t \in Transports : NetworkFails(t)
    \/ \E t \in Transports : CloseCompletes(t)
    \/ \E i \in Handles : TimerFires(i)
    \/ \E c \in Conns : Hangup(c)

SpecJoin == Init /\ [][JoinNext]_vars

\* both ends of the viewport's transport, on a network that does not fail
\* but on which any peer or intermediary may put a frame: to the hook a
\* message of the viewed conversation under a known type, the same under an
\* unknown type, or bytes that do not parse; to the relay a frame of an
\* unknown type or bytes that do not parse.
Probe == [id |-> "m1", created_at |-> 1]
InboundFrames ==
    {Garbage,
     [type |-> "#other", groupId |-> "g1", message |-> Probe],
     [type |-> "new_message", groupId |-> "g1", message |-> Probe]}
ServerJunk ==
    {[type |-> "#other", groupId |-> NoGroup], [type |-> "#unparseable", groupId |-> NoGroup]}

InboundNext ==
    \/ Mount
    \/ \E g \in Groups : SelectGroup(g)
    \/ \E t \in Transports, c \in Conns, id \in ClientIds : Accept(t, c, id)
    \/ \E t \in Transports : Established(t)
    \/ \E t \in Transports : Delivered(t)
    \/ \E c \in Conns : Hangup(c)
    \/ \E t \in Transports, f \in InboundFrames : MessageArrives(t, f)
    \/ RunEffect
    \/ \E c \in Conns, f \in ServerJunk : ServerReceives(c, f)

SpecInbound == Init /\ [][InboundNext]_vars

\* the viewport against an upstream and a relay that may hand it a message
\* object without an id ("none") or without a created_at (0), pushed in a
\* new_message frame or as an entry of the polled list
WellFormed(m) == m.id # "none" /\ m.created_at # 0
PushedMsgs ==
    {Probe, [id |-> "m2", created_at |-> 2],
     [id |-> "none", created_at |-> 1], [id |-> "m1", created_at |-> 0]}
MalformedFrames == [type : {"new_message"}, groupId : {"g1"}, message : PushedMsgs]
PolledLists == SeqsUpTo(PushedMsgs, MaxSnapshot)

MalformedNext ==
    \/ Mount
    \/ \E g \in Groups : SelectGroup(g)
    \/ \E t \in Transports : TransportOpens(t)
    \/ \E t \in Transports, f \in MalformedFrames : MessageArrives(t, f)
    \/ RunEffect
    \/ \E snap \in PolledLists : PollSnapshot("g1", snap)

SpecMalformed == Init /\ [][MalformedNext]_vars

\* ======================================================================
\*  Claims: Connection Session
\* ======================================================================
IsPrefix(p, q) == Len(p) <= Len(q) /\ \A i \in 1..Len(p) : p[i] = q[i]
BackoffSchedule == <<1000, 2000, 4000, 8000, 16000>>

\* the viewport is mounted and its effect has never been cleaned up, so that
\* no close was requested by the owner
NeverTornDown == phase = "mounted" /\ changes = 0
Exhausted ==
    /\ NeverTornDown
    /\ retryCount = MAX_RETRIES
    /\ ws # 0 /\ rs[ws] = "CLOSED"

\* C1: while no close is requested by the owner, the delays scheduled since
\* the retry counter was last 0 are 1s, 2s, 4s, 8s, 16s in this order; once
\* the transport of the 5th retry has closed no timer is pending, and no step
\* of the session opens a transport or schedules a timer.
BackoffScheduleHolds ==
    /\ [](NeverTornDown =>
            /\ IsPrefix(delayLog, BackoffSchedule)
            /\ Len(delayLog) \in {retryCount, retryCount + 1}
            /\ (Exhausted => timers = <<>> /\ retryTimer = 0 /\ Len(delayLog) = MAX_RETRIES))
    /\ [][(Exhausted /\ phase' = phase /\ changes' = changes)
            => (rs' = rs /\ ws' = ws /\ timers' = timers)]_vars

BackoffExhausted == Exhausted /\ delayLog = BackoffSchedule /\ timers = <<>>

\* C8: once a viewport that had a retry timer pending is unmounted, the
\* session holds no transport that is connecting or open (the cleanup closed
\* what there was, so such a transport was opened after the teardown).
TeardownStopsReconnect ==
    (phase = "unmounted" /\ tornWithTimer)
        => \A t \in Transports : rs[t] \notin {"CONNECTING", "OPEN"}

\* C9: no retry timer is ever scheduled by the close of a transport that the
\* owner closed (without such a timer there is no reconnect attempt either).
OwnerCloseSchedulesNoRetry ==
    \A i \in 1..Len(timers) : ~timers[i].owner

Live(t) == rs[t] \in {"CONNECTING", "OPEN"}

\* C14: while ws.current is connecting or open, connect() of any render
\* returns a state with the same ws.current, the same readyStates (no new
\* transport), the same retryCount and the same intentionalClose; and the
\* timer callback that runs then (retryCount++, connect()) changes none of
\* the three but the counter it increments itself.
ConnectIsNoOpWhenLive ==
    /\ [](ws # 0 /\ Live(ws) =>
            \A g \in Groups \cup {NoGroup} :
                LET s == connect(Sess, g)
                IN /\ s.ws = ws
                   /\ s.rs = rs
                   /\ s.retryCount = retryCount
                   /\ s.intentionalClose = intentionalClose)
    /\ [][(retryCount' = retryCount + 1 /\ ws # 0 /\ Live(ws))
            => (ws' = ws /\ rs' = rs /\ intentionalClose' = intentionalClose)]_vars

\* the retry counter is above 0 on an open transport: onopen set it to 0, so
\* a timer callback ran connect() while the transport was open
ConnectCalledWhileOpen == ws # 0 /\ rs[ws] = "OPEN" /\ retryCount >= 1

\* C15: the step in which a transport opens leaves the retry counter at 0
\* and no retry timer pending, and, when the viewport designates a
\* conversation, leaves a join_group for that conversation sent on the
\* transport that opened.
OpenResetsAndJoins ==
    [][\A t \in Transports :
          (rs[t] = "CONNECTING" /\ rs'[t] = "OPEN") =>
              /\ retryCount' = 0
              /\ retryTimer' = 0 /\ timers' = <<>>
              /\ (groupId \in Groups => wire'[t] = JoinFrame(groupId))]_vars

\* C16: whenever the viewport designates a conversation and its transport
\* is open with nothing in flight and the socket at the other end open, that
\* socket's subscription is the designated conversation.
JoinFollowsConversation ==
    (/\ groupId \in Groups
     /\ ws # 0 /\ rs[ws] = "OPEN" /\ wire[ws] = NoSend
     /\ peer[ws] # 0 /\ srs[peer[ws]] = "OPEN")
        => sgroup[peer[ws]] = groupId

\* C17: at most one transport of the session is connecting or open.
OneLiveTransport == Cardinality({t \in Transports : Live(t)}) <= 1

ReplacedTransport ==
    \E t \in Transports :
        /\ rs[t] = "CLOSING"
        /\ ws # 0 /\ ws # t /\ Live(ws)
        /\ retryCount >= 1

\* ======================================================================
\*  Claims: message cache
\* ======================================================================
Has(q, m) == \E i \in 1..Len(q) : q[i] = m

\* C2: a step that writes a poll snapshot into the cache of a conversation
\* keeps every message the cache of that conversation held before.
SnapshotKeepsEntries ==
    [][\A g \in Groups :
          (cacheOp' = "snapshot" /\ cache'[g] # cache[g])
              => \A i \in 1..Len(cache[g].data) : Has(cache'[g].data, cache[g].data[i])]_vars

\* C3: the cache of every conversation holds at most one message per id.
NoDuplicateIds == \A g \in Groups : DistinctIds(cache[g].data)

DuplicateDelivered ==
    /\ cacheOp = "delta_dup"
    /\ ~effectPending
    /\ groupId \in Groups
    /\ \E i \in 1..Len(cache[groupId].data) : cache[groupId].data[i].id = lastMessage.message.id

\* C4: from every reachable cache and for every message m of the
\* conversation: a second delta of m changes nothing after the first; a delta
\* of m after a snapshot that contains m changes nothing; and a snapshot that
\* contains m gives the same sequence whether or not a delta of m came first.
IdempotentMerge ==
    \A g \in Groups : \A m \in MsgsOf(g) :
        LET c == cache[g]
            once == applyDelta(c, m)
        IN /\ applyDelta(once, m) = once
           /\ \A snap \in Snapshots(g) :
                 Has(snap, m) =>
                    /\ applyDelta(applySnapshot(c, snap), m) = applySnapshot(c, snap)
                    /\ applySnapshot(once, snap) = applySnapshot(c, snap)

AppliedTwice ==
    /\ cacheOp = "delta_dup"
    /\ groupId \in Groups
    /\ Len(cache[groupId].data) >= 2
    /\ Has(cache[groupId].data, lastMessage.message)

\* C5: the view handed to the list (sortedMessages) is in non-decreasing
\* order of created_at, for every conversation.
OrderInvariant ==
    \A g \in Groups :
        LET v == sortedMessages(g)
        IN \A i \in 1..(Len(v) - 1) : v[i].created_at <= v[i + 1].created_at

ArrivedOutOfOrder ==
    \E g \in Groups :
        /\ Len(cache[g].data) = 3
        /\ cache[g].data[1].created_at > cache[g].data[2].created_at
        /\ sortedMessages(g) # cache[g].data

\* ======================================================================
\*  Claims: relay
\* ======================================================================
ScopedKinds == {"new_message", "member_joined", "member_left"}
IsRequest == bcast.route \in Routes
\* a socket the Map holds, open, whose subscription is conversation g
Subscribed(c, g) == Registered(c) /\ srs[c] = "OPEN" /\ sgroup[c] = g

RejoinCorrectness ==
    /\ []((bcast.route = "frame" /\ bcast.kind = "join_group" /\ bcast.groupId # NoGroup)
             => sgroup[bcast.conn] = bcast.groupId)
    /\ []((IsRequest /\ bcast.kind \in ScopedKinds)
             => \A c \in bcast.sent : sgroup[c] = bcast.groupId)
    /\ [][\A c \in Conns :
             sgroup'[c] # sgroup[c] =>
                \/ srs'[c] = "NONE"
                \/ (bcast'.route = "frame" /\ bcast'.conn = c /\ bcast'.kind = "join_group")]_vars

RejoinHandled ==
    /\ bcast.route = "frame" /\ bcast.kind = "join_group"
    /\ bcast.before \in Groups
    /\ bcast.groupId \in Groups \ {bcast.before}
    /\ sgroup[bcast.conn] = bcast.groupId

\* C10: when a send throws during a fan-out, every other open socket the Map
\* holds that the event is for is still sent the event, whatever the route.
FanOutSurvivesSendFailure ==
    (IsRequest /\ bcast.threw # {}) =>
        \A c \in Conns :
            (Registered(c) /\ SendsTo(c, bcast.route, bcast.groupId) /\ c \notin bcast.threw)
                => c \in bcast.sent

\* C11: when the write of a message post succeeded, the response reports
\* success (the route's success status), whatever happened to the sends.
RouteMissNotPropagated ==
    (IsRequest /\ bcast.kind = "new_message" /\ bcast.wrote)
        => bcast.status = OkStatus(bcast.route)

\* C12: when a post through POST /api/groups/:groupId/messages succeeded
\* upstream, the new_message event went to every socket that is open and
\* subscribed to the conversation (and whose send did not throw), to no
\* other socket, and the forEach visits no socket twice.
EndToEndDelivery ==
    /\ \A i, j \in 1..Len(clients) : clients[i].conn = clients[j].conn => i = j
    /\ (bcast.route = "post_v1" /\ bcast.wrote) =>
          /\ \A c \in bcast.sent : srs[c] = "OPEN" /\ sgroup[c] = bcast.groupId
          /\ \A c \in Conns :
                (srs[c] = "OPEN" /\ sgroup[c] = bcast.groupId /\ c \notin bcast.threw)
                    => c \in bcast.sent

\* C13: when the write of a message post failed, the response is the
\* route's error status, no event was sent to any socket (no send was even
\* tried), and the write was called once; no request calls it twice.
BroadcastOnlyAfterWrite ==
    /\ IsRequest => bcast.writes <= 1
    /\ (IsRequest /\ bcast.kind = "new_message" /\ ~bcast.wrote) =>
          /\ bcast.status = ErrStatus(bcast.route)
          /\ bcast.status >= 400
          /\ bcast.sent = {} /\ bcast.threw = {}
          /\ bcast.writes = 1

WriteFailedWithSubscribers ==
    /\ IsRequest /\ bcast.kind = "new_message" /\ ~bcast.wrote
    /\ bcast.sent = {}
    /\ \E c \in Conns : Subscribed(c, bcast.groupId)

\* ======================================================================
\*  Claims: inbound frames at both ends
\* ======================================================================
\* the step is a message event handled by the hook
Arrived == rx' # rx \/ (~effectPending /\ effectPending')
\* the step is a frame handled by the relay
ServerGot(kind) == bcast' # bcast /\ bcast'.route = "frame" /\ bcast'.kind = kind

\* C18: a message event whose data does not parse leaves lastMessage, the
\* pending effect, the cache and the transports as they were; a frame that
\* does not parse leaves the server's Map, sockets and subscriptions as they
\* were, the socket open and in the Map.
MalformedDropped ==
    /\ [][(Arrived /\ rx' = Garbage) =>
             UNCHANGED <<lastMessage, effectPending, cache, sessionVars>>]_vars
    /\ [][ServerGot("#unparseable") =>
             /\ UNCHANGED <<clients, srs, sgroup, cid>>
             /\ srs'[bcast'.conn] = "OPEN"
             /\ Registered(bcast'.conn)]_vars

GarbageAtBothEnds ==
    /\ rx = Garbage /\ lastMessage.type = "new_message"
    /\ groupId = "g1" /\ cache["g1"].has
    /\ ws # 0 /\ rs[ws] = "OPEN"
    /\ bcast.route = "frame" /\ bcast.kind = "#unparseable"
    /\ sgroup[bcast.conn] = "g1"

\* C20: a message event with an unknown type changes neither the cache nor
\* the transports, and no effect run changes the cache while lastMessage has
\* an unknown type; a frame of an unknown type leaves the server's Map,
\* sockets and subscriptions as they were, the socket open.
UnknownTypeIgnored ==
    /\ [][(Arrived /\ rx'.type = "#other") => UNCHANGED <<cache, sessionVars>>]_vars
    /\ [][lastMessage.type = "#other" => cache' = cache]_vars
    /\ [][ServerGot("#other") =>
             /\ UNCHANGED <<clients, srs, sgroup, cid>>
             /\ srs'[bcast'.conn] = "OPEN"]_vars

UnknownAtBothEnds ==
    /\ lastMessage.type = "#other" /\ ~effectPending
    /\ groupId = lastMessage.groupId
    /\ ws # 0 /\ rs[ws] = "OPEN"
    /\ bcast.route = "frame" /\ bcast.kind = "#other"
    /\ sgroup[bcast.conn] = "g1"

\* ======================================================================
\*  Claims: malformed messages
\* ======================================================================
AllWellFormed(q) == \A i \in 1..Len(q) : WellFormed(q[i])

\* C19: an effect run whose lastMessage carries a message without id or
\* without created_at leaves the cache as it was, and a poll changes a
\* conversation's list only to a list whose entries all have both.
MalformedRejected ==
    /\ [][(cacheOp' \in {"delta_new", "delta_dup"} /\ ~WellFormed(lastMessage.message))
            => cache' = cache]_vars
    /\ [][cacheOp' = "snapshot" =>
            \A g \in Groups : cache'[g] # cache[g] => AllWellFormed(cache'[g].data)]_vars

\* ======================================================================
\*  Claims: registry and broadcast targets
\* ======================================================================
\* C21: the Map holds no socket whose close the server has handled (every
\* socket it holds is open or closing), and every socket a request sent an
\* event to, or tried to, was open.
ClosedIsUnregistered ==
    /\ \A c \in Conns : Registered(c) => srs[c] \in {"OPEN", "CLOSING"}
    /\ IsRequest => \A c \in bcast.sent \cup bcast.threw : srs[c] = "OPEN"

\* a broadcast reached some socket and skipped one the Map still holds, which
\* the event is for, because it is closing
BroadcastSkipsClosing ==
    /\ IsRequest /\ bcast.sent # {}
    /\ \E c \in Conns :
          /\ Registered(c) /\ srs[c] = "CLOSING"
          /\ (bcast.route = "create_v2" \/ sgroup[c] = bcast.groupId)
          /\ c \notin bcast.sent

\* ======================================================================
\*  Claims: order and content of the cached sequence
\* ======================================================================
\* the order of identifiers
IdOrder == <<"m1", "m2", "m3", "n1">>
IdRank(id) == CHOOSE i \in 1..Len(IdOrder) : IdOrder[i] = id
\* a comes before b by created_at, then by identifier
Before(a, b) ==
    \/ a.created_at < b.created_at
    \/ (a.created_at = b.created_at /\ IdRank(a.id) < IdRank(b.id))

\* C22: the view handed to the list is the one arrangement of the cached
\* messages by created_at and then by identifier, so that it is a function
\* of the set of messages only.
DeterministicOrder ==
    \A g \in Groups :
        LET v == sortedMessages(g)
        IN \A i \in 1..(Len(v) - 1) : Before(v[i], v[i + 1])

\* C23: no step changes a message the cache of a conversation holds: a
\* message of the same id the cache holds after the step is the same message.
FirstInsertionWins ==
    [][\A g \in Groups :
          \A i \in 1..Len(cache[g].data) : \A j \in 1..Len(cache'[g].data) :
              cache'[g].data[j].id = cache[g].data[i].id
                  => cache'[g].data[j] = cache[g].data[i]]_vars

\* C24: when the fan-out of a request ran and no send threw, a group_created
\* event was sent to exactly the open sockets, whatever their subscription,
\* and a new_message, member_joined or member_left event to exactly the open
\* sockets subscribed to its conversation.
BroadcastAsymmetry ==
    (IsRequest /\ bcast.status = OkStatus(bcast.route) /\ bcast.threw = {}) =>
        /\ bcast.kind = "group_created"
              => bcast.sent = {c \in Conns : srs[c] = "OPEN"}
        /\ bcast.kind \in ScopedKinds
              => bcast.sent = {c \in Conns : srs[c] = "OPEN" /\ sgroup[c] = bcast.groupId}

\* ======================================================================
\*  Claims: the session under interleavings
\* ======================================================================
\* C25: every step that sends a frame on a transport sends a join_group for
\* the conversation the viewport designates at that step.
NoStaleJoin ==
    [][\A t \in Transports :
          (wire'[t] # wire[t] /\ wire'[t] # NoSend) => wire'[t] = JoinFrame(groupId')]_vars

\* no transport has an open or close event outstanding
Quiescent == \A t \in Transports : rs[t] \notin {"CONNECTING", "CLOSING"}

\* C26: while the viewport is mounted and no transport event is outstanding,
\* isConnected is true exactly when ws.current is an open transport.
ConnectedTracksTransport ==
    (phase = "mounted" /\ Quiescent) => (isConnected <=> (ws # 0 /\ rs[ws] = "OPEN"))

\* C27: a message event never replaces a lastMessage that is a new_message
\* for the viewed conversation and that the effect has not run for yet (the
\* effect then never sees it, and its message is not put into the cache).
NoLostDelta ==
    [][(Arrived /\ effectPending /\ DeltaApplies(lastMessage, groupId))
          => lastMessage' = lastMessage]_vars

\* C28: at most one retry timer is pending, and retryTimer.current is the
\* handle of the timer that is pending.
OneRetryTimer ==
    /\ Len(timers) <= 1
    /\ timers # <<>> => retryTimer = timers[1].h

\* the step is an open of a transport or a cleanup of the effect
OpenOrTeardown ==
    \/ \E t \in Transports : rs[t] = "CONNECTING" /\ rs'[t] = "OPEN"
    \/ phase' = "unmounted" /\ phase = "mounted"
    \/ changes' # changes \/ groupId' # groupId

\* C29: retryCount.current is within 0..MAX_RETRIES; a step raises it only
\* by one and only by running a timer callback; a step lowers it only to 0
\* and only by the open of a transport or a cleanup.
RetryCountInRange ==
    /\ [](retryCount \in 0..MAX_RETRIES)
    /\ [][retryCount' > retryCount =>
            (retryCount' = retryCount + 1 /\ Len(timers') < Len(timers))]_vars
    /\ [][retryCount' < retryCount => (retryCount' = 0 /\ OpenOrTeardown)]_vars

\* ======================================================================
\*  Claims: registry integrity
\* ======================================================================
\* the Map holds socket c under the id drawn for it
OwnEntry(c) == \E i \in 1..Len(clients) : clients[i] = [id |-> cid[c], conn |-> c]

\* C30: every socket that is open or closing (its close not handled yet) is
\* in the Map under its own id, and the step that handles the close of a
\* socket leaves the Map entry of every other such socket in place.
RegistryIntegrity ==
    /\ [](\A c \in Conns : srs[c] \in {"OPEN", "CLOSING"} => OwnEntry(c))
    /\ [][\A c, d \in Conns :
             (c # d /\ srs[c] # "NONE" /\ srs'[c] = "NONE" /\ srs'[d] # "NONE" /\ Registered(d))
                 => Registered(d)']_vars

====
